---- MODULE Spec2Model ----
(***************************************************************************)
(* The schema-driven deserializer of aiowiki/awiki:                        *)
(* InterfaceModel._from_json, its type-introspection helpers               *)
(* (extract_typing, is_optional, get_annotations) and the response models  *)
(* of models/results.py.                                                   *)
(*                                                                         *)
(* Python values are tagged records [t |-> <type name>, v |-> <payload>];  *)
(* a str is a TLA+ string, a list a sequence, a dict a sequence of         *)
(* [k, v] entries in insertion order, a float its value in tenths.         *)
(* A call that may raise returns Ok(value) or Raise(...).                  *)
(***************************************************************************)
EXTENDS Integers, Sequences, FiniteSets, TLC

\* ------------------------------------------------------------------------
\* Python values and outcomes
\* ------------------------------------------------------------------------

PyNone == [t |-> "NoneType"]

PyBoolV(b) == [t |-> "bool", v |-> b]

PyIntV(n) == [t |-> "int", v |-> n]

\* n is the value in tenths: PyFloatV(15) is 1.5
PyFloatV(n) == [t |-> "float", v |-> n]

PyStrV(s) == [t |-> "str", v |-> s]

PyListV(xs) == [t |-> "list", v |-> xs]

\* kvs: sequence of [k |-> <TLA+ string>, v |-> <value>], keys distinct
PyDictV(kvs) == [t |-> "dict", v |-> kvs]

Ok(v) == [ok |-> TRUE, val |-> v]

\* exc: the Python exception class; site: the statement that raised;
\* model, field: the class and attribute names the message carries ("" when
\* the message carries none).
Raise(exc, site, model, field) ==
    [ok |-> FALSE,
     err |-> [exc |-> exc, site |-> site, model |-> model, field |-> field]]

Char(s, i) == SubSeq(s, i, i)

IsDigit(c) == \E i \in 1..10 : Char("0123456789", i) = c

DigitVal(c) == (CHOOSE i \in 1..10 : Char("0123456789", i) = c) - 1

RECURSIVE LStrip(_)
LStrip(s) == IF Len(s) > 0 /\ Char(s, 1) = " " THEN LStrip(SubSeq(s, 2, Len(s))) ELSE s

RECURSIVE RStrip(_)
RStrip(s) ==
    IF Len(s) > 0 /\ Char(s, Len(s)) = " " THEN RStrip(SubSeq(s, 1, Len(s) - 1)) ELSE s

Strip(s) == RStrip(LStrip(s))

\* digits with single underscores between them (the body of an int literal)
IsIntBody(s) ==
    /\ Len(s) > 0
    /\ IsDigit(Char(s, 1))
    /\ IsDigit(Char(s, Len(s)))
    /\ \A i \in 1..Len(s) : IsDigit(Char(s, i)) \/ Char(s, i) = "_"
    /\ \A i \in 1..(Len(s) - 1) : ~(Char(s, i) = "_" /\ Char(s, i + 1) = "_")

RECURSIVE DigitsValue(_, _)
DigitsValue(s, acc) ==
    IF Len(s) = 0 THEN acc
    ELSE IF Char(s, 1) = "_" THEN DigitsValue(SubSeq(s, 2, Len(s)), acc)
    ELSE DigitsValue(SubSeq(s, 2, Len(s)), 10 * acc + DigitVal(Char(s, 1)))

HasSign(s) == Len(s) > 0 /\ Char(s, 1) \in {"+", "-"}

Unsigned(s) == IF HasSign(s) THEN SubSeq(s, 2, Len(s)) ELSE s

SignOf(s) == IF Len(s) > 0 /\ Char(s, 1) = "-" THEN -1 ELSE 1

\* int(<str>)
ParseInt(s) ==
    LET b == Strip(s) IN
    IF IsIntBody(Unsigned(b))
    THEN Ok(PyIntV(SignOf(b) * DigitsValue(Unsigned(b), 0)))
    ELSE Raise("ValueError", "int()", "", "")

DotAt(s) == IF \E i \in 1..Len(s) : Char(s, i) = "."
            THEN CHOOSE i \in 1..Len(s) : Char(s, i) = "." /\ \A j \in 1..(i - 1) : Char(s, j) # "."
            ELSE 0

\* float(<str>) for decimal notation; a literal with more than one fractional
\* digit, an exponent, or inf/nan has no value in tenths: "ModelBound".
ParseFloat(s) ==
    LET b == Strip(s)
        u == Unsigned(b)
        d == DotAt(u)
        ip == IF d = 0 THEN u ELSE SubSeq(u, 1, d - 1)
        fp == IF d = 0 THEN "" ELSE SubSeq(u, d + 1, Len(u))
        shapeOk == /\ (ip = "" \/ IsIntBody(ip))
                   /\ (fp = "" \/ IsIntBody(fp))
                   /\ ~(ip = "" /\ fp = "")
        special == \/ \E i \in 1..Len(u) : Char(u, i) \in {"e", "E"}
                   \/ u \in {"inf", "nan", "infinity", "Infinity", "NaN", "Inf", "INF", "NAN"}
    IN  IF special \/ (shapeOk /\ Len(fp) > 1)
        THEN Raise("ModelBound", "float()", "", "")
        ELSE IF shapeOk
        THEN Ok(PyFloatV(SignOf(b) * (10 * (IF ip = "" THEN 0 ELSE DigitsValue(ip, 0))
                                      + (IF fp = "" THEN 0 ELSE DigitsValue(fp, 0)))))
        ELSE Raise("ValueError", "float()", "", "")

Abs(n) == IF n < 0 THEN -n ELSE n

\* repr(<float>)
FloatRepr(n) ==
    (IF n < 0 THEN "-" ELSE "") \o ToString(Abs(n) \div 10) \o "." \o ToString(Abs(n) % 10)

RECURSIVE Repr(_)
RECURSIVE ReprItems(_, _)
RECURSIVE ReprEntries(_, _)
\* repr(x); the sample strings hold no quote, backslash or control character
Repr(x) ==
    CASE x.t = "NoneType" -> "None"
      [] x.t = "bool" -> IF x.v THEN "True" ELSE "False"
      [] x.t = "int" -> ToString(x.v)
      [] x.t = "float" -> FloatRepr(x.v)
      [] x.t = "str" -> "'" \o x.v \o "'"
      [] x.t = "list" -> "[" \o ReprItems(x.v, 1) \o "]"
      [] x.t = "dict" -> "{" \o ReprEntries(x.v, 1) \o "}"

ReprItems(xs, i) ==
    IF i > Len(xs) THEN ""
    ELSE Repr(xs[i]) \o (IF i < Len(xs) THEN ", " ELSE "") \o ReprItems(xs, i + 1)

ReprEntries(kvs, i) ==
    IF i > Len(kvs) THEN ""
    ELSE "'" \o kvs[i].k \o "': " \o Repr(kvs[i].v)
         \o (IF i < Len(kvs) THEN ", " ELSE "") \o ReprEntries(kvs, i + 1)

\* str(x)
PyStr(x) == Ok(PyStrV(IF x.t = "str" THEN x.v ELSE Repr(x)))

\* int(x)
PyInt(x) ==
    CASE x.t = "int" -> Ok(x)
      [] x.t = "bool" -> Ok(PyIntV(IF x.v THEN 1 ELSE 0))
      [] x.t = "float" -> Ok(PyIntV(IF x.v < 0 THEN -(Abs(x.v) \div 10) ELSE x.v \div 10))
      [] x.t = "str" -> ParseInt(x.v)
      [] OTHER -> Raise("TypeError", "int()", "", "")

\* float(x)
PyFloat(x) ==
    CASE x.t = "float" -> Ok(x)
      [] x.t = "int" -> Ok(PyFloatV(10 * x.v))
      [] x.t = "bool" -> Ok(PyFloatV(IF x.v THEN 10 ELSE 0))
      [] x.t = "str" -> ParseFloat(x.v)
      [] OTHER -> Raise("TypeError", "float()", "", "")

\* bool(x): truthiness, never raises
PyBool(x) ==
    Ok(PyBoolV(CASE x.t = "NoneType" -> FALSE
                 [] x.t = "bool" -> x.v
                 [] x.t \in {"int", "float"} -> x.v # 0
                 [] x.t = "str" -> x.v # ""
                 [] x.t \in {"list", "dict"} -> Len(x.v) > 0))

\* NoneType(x): NoneType takes no arguments
PyNoneType(x) == Raise("TypeError", "NoneType()", "", "")

IsNumber(x) == x.t \in {"int", "float", "bool"}

Tenths(x) == CASE x.t = "float" -> x.v
               [] x.t = "int" -> 10 * x.v
               [] x.t = "bool" -> IF x.v THEN 10 ELSE 0

\* x == y on decoded JSON values: numbers compare by value across int, float
\* and bool, everything else by type and content
PyEq(x, y) ==
    IF IsNumber(x) /\ IsNumber(y) THEN Tenths(x) = Tenths(y)
    ELSE x.t = y.t /\ x = y

\* ------------------------------------------------------------------------
\* Annotation objects (what typing.get_origin / get_args see)
\* ------------------------------------------------------------------------

\* a plain class: str, int, an enum class, a model class, datetime.date ...
TClass(n) == [k |-> "class", n |-> n]

\* X | Y between classes and builtin aliases: types.UnionType
TUnionType(a, b) == [k |-> "UnionType", args |-> <<a, b>>]

\* typing.Optional[X], and X | None when X is a typing alias: typing.Union
TTypingUnion(a, b) == [k |-> "typing.Union", args |-> <<a, b>>]

\* origin[args]: list[X], tuple[X, ...], dict[K, V], PlatformArticle[...]
TAlias(origin, args) == [k |-> "alias", origin |-> origin, args |-> args]

\* an enum member used as a type argument (PlatformType.DESKTOP)
TMember(e, name) == [k |-> "member", enum |-> e, name |-> name]

NoneT == TClass("NoneType")

StrT == TClass("str")

IntT == TClass("int")

BoolT == TClass("bool")

FloatT == TClass("float")

ListOf(t) == TAlias("list", <<t>>)

IsTypingAlias(t) ==
    \/ t.k = "typing.Union"
    \/ t.k = "alias" /\ t.origin \notin {"list", "tuple", "dict"}

\* the annotation expression  t | None
OrNone(t) == IF IsTypingAlias(t) THEN TTypingUnion(t, NoneT) ELSE TUnionType(t, NoneT)

\* typing.get_origin; "" stands for None
get_origin(t) ==
    CASE t.k = "UnionType" -> "UnionType"
      [] t.k = "typing.Union" -> "typing.Union"
      [] t.k = "alias" -> t.origin
      [] OTHER -> ""

\* typing.get_args
get_args(t) == IF t.k \in {"UnionType", "typing.Union", "alias"} THEN t.args ELSE <<>>

\* extract_typing(typed, safe=True): the first type argument, or typed itself
extract_typing(typed) ==
    IF Len(get_args(typed)) > 0 THEN get_args(typed)[1] ELSE typed

is_optional(typed) ==
    /\ get_origin(typed) = "UnionType"
    /\ \E i \in 1..Len(get_args(typed)) : get_args(typed)[i] = NoneT

\* get_origin(typ) in (list, tuple)
primary_is_array(typ) == get_origin(typ) \in {"list", "tuple"}

\* while typ != (extracted := extract_typing(typ)): typ = extracted
RECURSIVE LeafType(_)
LeafType(typ) == IF typ # extract_typing(typ) THEN LeafType(extract_typing(typ)) ELSE typ

PRIMITIVES == {"bool", "str", "int", "float", "NoneType"}

\* ------------------------------------------------------------------------
\* Enumerations (models/enums.py)
\* ------------------------------------------------------------------------

M(name, value) == [name |-> name, value |-> value]

EnumNames ==
    {"MediaType", "Language", "LanguageDirection", "ArticleType", "PlatformType"}

EnumMembers(e) ==
    CASE e = "MediaType" -> <<M("BITMAP", "BITMAP"), M("VIDEO", "VIDEO"), M("AUDIO", "AUDIO")>>
      [] e = "Language" -> <<M("ENGLISH", "en"), M("FRENCH", "fr")>>
      [] e = "LanguageDirection" -> <<M("LTR", "ltr"), M("RTL", "rtl")>>
      [] e = "ArticleType" -> <<M("STANDARD", "standard"), M("DISAMBIGUATION", "disambiguation")>>
      [] e = "PlatformType" -> <<M("DESKTOP", "desktop"), M("MOBILE", "mobile")>>

EnumV(e, m) == [t |-> "enum", cls |-> e, name |-> m.name, v |-> m.value]

\* E(value): the member whose value equals the argument, else ValueError
EnumCall(e, x) ==
    LET ms == EnumMembers(e)
        hit == {i \in 1..Len(ms) : PyEq(PyStrV(ms[i].value), x)}
    IN  IF hit # {}
        THEN Ok(EnumV(e, ms[CHOOSE i \in hit : \A j \in hit : i <= j]))
        ELSE Raise("ValueError", "enum", e, "")

\* ------------------------------------------------------------------------
\* Classes: the response models of models/results.py
\* ------------------------------------------------------------------------

\* one annotation of a class body:  name: type
F(name, type) == [name |-> name, type |-> type]

DatetimeT == TClass("datetime.datetime")

DateT == TClass("datetime.date")

Mod(n) == TClass(n)

ResultsClasses ==
    {"BasicImage", "Credit", "Artist", "EmbeddedImage", "Image", "User", "RevisionMeta",
     "File", "License", "ImageDescription", "ArticleNamespace", "ViewShapshot",
     "SearchPageResult", "ArticleTitles", "ImageStructure", "FullImage", "PlatformArticle",
     "ArticleURLs", "ArticleMeta", "News", "MostReadArticle", "MostRead", "FeaturedContent",
     "UndatedEvent", "DatedEvent", "OnThisDay"}

\* cls.__annotations__ of each class of results.py, in declaration order
ResultsAnnotations(c) ==
    CASE c = "BasicImage" -> <<F("source", StrT), F("width", IntT), F("height", IntT)>>
      [] c = "Credit" -> <<F("html", StrT), F("text", StrT)>>
      [] c = "Artist" ->
            <<F("html", StrT), F("text", OrNone(StrT)), F("name", OrNone(StrT)),
              F("user_page", OrNone(StrT))>>
      [] c = "EmbeddedImage" ->
            <<F("mimetype", StrT), F("url", StrT), F("size", OrNone(IntT)),
              F("width", OrNone(IntT)), F("height", OrNone(IntT)),
              F("duration", OrNone(IntT))>>
      [] c = "Image" ->
            <<F("mediatype", TClass("MediaType")), F("size", OrNone(IntT)),
              F("width", OrNone(IntT)), F("height", OrNone(IntT)),
              F("duration", OrNone(IntT)), F("url", StrT)>>
      [] c = "User" -> <<F("id", IntT), F("name", StrT)>>
      [] c = "RevisionMeta" -> <<F("timestamp", DatetimeT), F("user", Mod("User"))>>
      [] c = "File" ->
            <<F("title", StrT), F("file_description_url", StrT),
              F("latest", Mod("RevisionMeta")), F("preferred", Mod("Image")),
              F("original", Mod("Image")), F("thumbnail", OrNone(Mod("Image")))>>
      [] c = "License" -> <<F("type", StrT), F("code", StrT), F("url", StrT)>>
      [] c = "ImageDescription" ->
            <<F("html", StrT), F("text", StrT), F("lang", TClass("Language"))>>
      [] c = "ArticleNamespace" -> <<F("id", IntT), F("text", StrT)>>
      [] c = "ViewShapshot" -> <<F("date", DateT), F("views", IntT)>>
      [] c = "SearchPageResult" ->
            <<F("id", IntT), F("key", StrT), F("title", StrT), F("excerpt", StrT),
              F("matched_title", OrNone(StrT)), F("description", OrNone(StrT)),
              F("thumbnail", OrNone(Mod("EmbeddedImage")))>>
      [] c = "ArticleTitles" ->
            <<F("canonical", StrT), F("normalized", StrT), F("display", StrT)>>
      [] c = "ImageStructure" ->
            <<F("captions", TAlias("dict", <<TClass("Language"), StrT>>))>>
      [] c = "FullImage" ->
            <<F("title", StrT), F("thumbnail", Mod("BasicImage")),
              F("image", Mod("BasicImage")), F("file_page", StrT),
              F("artist", Mod("Artist")), F("credit", Mod("Credit")),
              F("license", Mod("License")), F("description", StrT),
              F("wb_entity_id", StrT), F("structured", Mod("ImageStructure"))>>
      [] c = "PlatformArticle" ->
            <<F("page", StrT), F("revisions", StrT), F("edit", StrT), F("talk", StrT)>>
      [] c = "ArticleURLs" ->
            <<F("desktop", TAlias("PlatformArticle", <<TMember("PlatformType", "DESKTOP")>>)),
              F("mobile", TAlias("PlatformArticle", <<TMember("PlatformType", "MOBILE")>>))>>
      [] c = "ArticleMeta" ->
            <<F("type", TClass("ArticleType")), F("namespace", Mod("ArticleNamespace")),
              F("wikibase_item", StrT), F("titles", Mod("ArticleTitles")),
              F("pageid", IntT), F("thumbnail", OrNone(Mod("BasicImage"))),
              F("originalimage", OrNone(Mod("BasicImage"))),
              F("lang", TClass("Language")), F("dir", TClass("LanguageDirection")),
              F("revision", StrT), F("tid", StrT), F("timestamp", DatetimeT),
              F("description", OrNone(StrT)), F("description_source", OrNone(StrT)),
              F("content_urls", Mod("ArticleURLs")), F("extract", StrT),
              F("extract_html", StrT)>>
      [] c = "News" -> <<F("story", StrT), F("links", ListOf(Mod("ArticleMeta")))>>
      [] c = "MostReadArticle" ->
            <<F("views", IntT), F("rank", IntT),
              F("view_history", ListOf(Mod("ViewShapshot")))>>
      [] c = "MostRead" ->
            <<F("date", DateT), F("articles", ListOf(Mod("MostReadArticle")))>>
      [] c = "FeaturedContent" ->
            <<F("tfa", Mod("ArticleMeta")), F("mostread", Mod("MostRead")),
              F("image", Mod("FullImage")), F("news", ListOf(Mod("News")))>>
      [] c = "UndatedEvent" -> <<F("text", StrT), F("pages", ListOf(Mod("ArticleMeta")))>>
      [] c = "DatedEvent" -> <<F("year", IntT)>>
      [] c = "OnThisDay" ->
            <<F("selected", ListOf(Mod("DatedEvent"))), F("births", ListOf(Mod("DatedEvent"))),
              F("deaths", ListOf(Mod("DatedEvent"))), F("events", ListOf(Mod("DatedEvent"))),
              F("holidays", ListOf(Mod("UndatedEvent")))>>

\* the bases in the class statement
ResultsBases(c) ==
    CASE c = "MostReadArticle" -> <<"ArticleMeta">>
      [] c = "DatedEvent" -> <<"UndatedEvent">>
      [] c = "PlatformArticle" -> <<"InterfaceModel", "Generic">>
      [] OTHER -> <<"InterfaceModel">>

\* a __prefix_schema__ assigned in the class body, as [k, v] entries
ResultsPrefixSchema(c) ==
    CASE c = "EmbeddedImage" -> <<[k |-> "url", v |-> "https:"]>>
      [] c = "File" -> <<[k |-> "file_description_url", v |-> "https:"]>>
      [] OTHER -> <<>>

ResultsHasPrefixSchema(c) == c \in {"EmbeddedImage", "File"}

\* ------------------------------------------------------------------------
\* Test models: one class per field shape _from_json distinguishes, the
\* two-model scenario of the specification (Article, Thumbnail), and an
\* inheritance chain with a private and a redeclared field
\* ------------------------------------------------------------------------

ByteT == TClass("bytes")

UserListT == ListOf(Mod("User"))

DesktopT == TAlias("PlatformArticle", <<TMember("PlatformType", "DESKTOP")>>)

\* single-field models  x: <type>
ShapeClasses ==
    {"ReqStr", "ReqInt", "ReqBool", "ReqFloat", "ReqEnum", "ReqModel", "ReqDate",
     "ReqDatetime", "ReqBytes", "ReqCustom", "ReqListStr", "ReqListInt", "ReqListModel",
     "ReqListEnum", "ReqTuple", "ReqGeneric", "ReqNest",
     "OptStr", "OptInt", "OptModel", "OptListStr", "OptListModel", "OptEnum", "OptBytes",
     "OptNoneFirst", "OptTyping", "OptGeneric",
     "PrefStr", "PrefInt", "PrefListStr", "PrefOptStr", "PrefModel"}

ShapeType(c) ==
    CASE c \in {"ReqStr", "PrefStr"} -> StrT
      [] c \in {"ReqInt", "PrefInt"} -> IntT
      [] c = "ReqBool" -> BoolT
      [] c = "ReqFloat" -> FloatT
      [] c = "ReqEnum" -> TClass("MediaType")
      [] c \in {"ReqModel", "PrefModel"} -> Mod("User")
      [] c = "ReqDate" -> DateT
      [] c = "ReqDatetime" -> DatetimeT
      [] c = "ReqBytes" -> ByteT
      [] c = "ReqCustom" -> TClass("CustomDeserializer")
      [] c \in {"ReqListStr", "PrefListStr"} -> ListOf(StrT)
      [] c = "ReqListInt" -> ListOf(IntT)
      [] c = "ReqListModel" -> UserListT
      [] c = "ReqListEnum" -> ListOf(TClass("MediaType"))
      [] c = "ReqTuple" -> TAlias("tuple", <<IntT, StrT>>)
      [] c = "ReqGeneric" -> DesktopT
      [] c = "ReqNest" -> Mod("RevisionMeta")
      [] c \in {"OptStr", "PrefOptStr"} -> OrNone(StrT)
      [] c = "OptInt" -> OrNone(IntT)
      [] c = "OptModel" -> OrNone(Mod("User"))
      [] c = "OptListStr" -> OrNone(ListOf(StrT))
      [] c = "OptListModel" -> OrNone(UserListT)
      [] c = "OptEnum" -> OrNone(TClass("MediaType"))
      [] c = "OptBytes" -> OrNone(ByteT)
      [] c = "OptNoneFirst" -> TUnionType(NoneT, StrT)
      [] c = "OptTyping" -> TTypingUnion(StrT, NoneT)
      [] c = "OptGeneric" -> OrNone(DesktopT)

ScenarioClasses == {"Article", "Thumbnail", "Base", "Der", "Der2"}

TestClasses == ShapeClasses \cup ScenarioClasses

TestAnnotations(c) ==
    CASE c \in ShapeClasses -> <<F("x", ShapeType(c))>>
      [] c = "Article" ->
            <<F("id", IntT), F("title", StrT), F("thumbnail", OrNone(Mod("Thumbnail")))>>
      [] c = "Thumbnail" -> <<F("url", StrT), F("width", OrNone(IntT))>>
      [] c = "Base" -> <<F("a", IntT), F("_p", IntT), F("x", StrT)>>
      [] c = "Der" -> <<F("b", StrT), F("x", IntT)>>
      [] c = "Der2" -> <<F("c", OrNone(IntT))>>

TestBases(c) ==
    CASE c = "Der" -> <<"Base">>
      [] c = "Der2" -> <<"Der">>
      [] OTHER -> <<"InterfaceModel">>

TestPrefixSchema(c) ==
    CASE c \in {"PrefStr", "PrefListStr", "PrefOptStr", "PrefModel"} ->
            <<[k |-> "x", v |-> "https:"]>>
      [] c = "PrefInt" -> <<[k |-> "x", v |-> "1"]>>
      [] c = "Thumbnail" -> <<[k |-> "url", v |-> "https:"]>>
      [] c = "Der" -> <<[k |-> "b", v |-> "p:"]>>
      [] OTHER -> <<>>

TestHasPrefixSchema(c) ==
    c \in {"PrefStr", "PrefListStr", "PrefOptStr", "PrefModel", "PrefInt", "Thumbnail", "Der"}

\* ------------------------------------------------------------------------
\* Class objects: bases, __mro__, __annotations__, __prefix_schema__
\* ------------------------------------------------------------------------

ModelClasses == ResultsClasses \cup TestClasses

Bases(c) ==
    CASE c \in ResultsClasses -> ResultsBases(c)
      [] c \in TestClasses -> TestBases(c)
      [] c = "bool" -> <<"int">>
      [] c = "datetime.datetime" -> <<"datetime.date">>
      [] OTHER -> <<>>

\* cls.__mro__ without the final object: the class, the linearization of its
\* first base, then its remaining bases (no class here has two model bases)
RECURSIVE Mro(_)
Mro(c) ==
    IF Bases(c) = <<>> THEN <<c>>
    ELSE <<c>> \o Mro(Bases(c)[1]) \o SubSeq(Bases(c), 2, Len(Bases(c)))

\* issubclass(c, d) for classes
issubclass(c, d) == \E i \in 1..Len(Mro(c)) : Mro(c)[i] = d

\* parent.__annotations__: the annotations of the class body itself
OwnAnnotations(c) ==
    CASE c \in ResultsClasses -> ResultsAnnotations(c)
      [] c \in TestClasses -> TestAnnotations(c)
      [] c = "InterfaceModel" -> <<F("__prefix_schema__", TAlias("dict", <<StrT, StrT>>))>>
      [] OTHER -> <<>>

\* dict.update for one item: an existing key keeps its place and takes the
\* new value, a new key is appended
DictSet(d, e) ==
    IF \E i \in 1..Len(d) : d[i].name = e.name
    THEN [i \in 1..Len(d) |-> IF d[i].name = e.name THEN e ELSE d[i]]
    ELSE Append(d, e)

RECURSIVE DictUpdate(_, _, _)
DictUpdate(d, es, i) == IF i > Len(es) THEN d ELSE DictUpdate(DictSet(d, es[i]), es, i + 1)

RECURSIVE UpdateFromMro(_, _, _)
UpdateFromMro(d, mro, i) ==
    IF i > Len(mro) THEN d
    ELSE UpdateFromMro(DictUpdate(d, OwnAnnotations(mro[i]), 1), mro, i + 1)

startswith(s, p) == Len(s) >= Len(p) /\ SubSeq(s, 1, Len(p)) = p

\* get_annotations without the loop over cls.__mro__
get_annotations_Own(c) ==
    LET IsPublic(e) == ~startswith(e.name, "_")
    IN  SelectSeq(OwnAnnotations(c), IsPublic)

\* get_annotations(cls): the class's annotations updated with those of every
\* class of its __mro__, names starting with "_" dropped
get_annotations(c) ==
    LET IsPublic(e) == ~startswith(e.name, "_")
    IN  SelectSeq(UpdateFromMro(OwnAnnotations(c), Mro(c), 1), IsPublic)

\* getattr(cls, "__prefix_schema__", {}): the attribute of the first class of
\* the __mro__ whose body assigns it. InterfaceModel declares it as a dataclass
\* field with a default_factory, which leaves no class attribute.
RECURSIVE PrefixSchemaFrom(_, _)
PrefixSchemaFrom(mro, i) ==
    IF i > Len(mro) THEN <<>>
    ELSE IF mro[i] \in ResultsClasses /\ ResultsHasPrefixSchema(mro[i])
    THEN ResultsPrefixSchema(mro[i])
    ELSE IF mro[i] \in TestClasses /\ TestHasPrefixSchema(mro[i])
    THEN TestPrefixSchema(mro[i])
    ELSE PrefixSchemaFrom(mro, i + 1)

prefix_schema(c) == PrefixSchemaFrom(Mro(c), 1)

\* key in d / d[key] / d.get(key) on [k, v] entries
HasKey(kvs, key) == \E i \in 1..Len(kvs) : kvs[i].k = key

Lookup(kvs, key) == kvs[CHOOSE i \in 1..Len(kvs) : kvs[i].k = key].v

DictGet(kvs, key) == IF HasKey(kvs, key) THEN Lookup(kvs, key) ELSE PyNone

\* ------------------------------------------------------------------------
\* Date and time converters
\* ------------------------------------------------------------------------

AllDigits(s) == Len(s) > 0 /\ \A i \in 1..Len(s) : IsDigit(Char(s, i))

IsLeap(y) == (y % 4 = 0 /\ y % 100 # 0) \/ y % 400 = 0

DaysInMonth(y, m) ==
    CASE m \in {1, 3, 5, 7, 8, 10, 12} -> 31
      [] m \in {4, 6, 9, 11} -> 30
      [] m = 2 -> IF IsLeap(y) THEN 29 ELSE 28

\* the range check of datetime.date(y, m, d)
ValidDate(y, m, d) ==
    y \in 1..9999 /\ m \in 1..12 /\ d >= 1 /\ d <= DaysInMonth(y, m)

\* str.split(sep) for a one-character separator
RECURSIVE Split(_, _, _)
Split(s, sep, cur) ==
    IF Len(s) = 0 THEN <<cur>>
    ELSE IF Char(s, 1) = sep THEN <<cur>> \o Split(SubSeq(s, 2, Len(s)), sep, "")
    ELSE Split(SubSeq(s, 2, Len(s)), sep, cur \o Char(s, 1))

\* lambda string: datetime.date(*map(int, string[:-1].split("-")))
DateMethod(x) ==
    IF x.t = "list" THEN Raise("AttributeError", "split", "", "")
    ELSE IF x.t # "str" THEN Raise("TypeError", "string[:-1]", "", "")
    ELSE
      LET parts == Split(SubSeq(x.v, 1, Len(x.v) - 1), "-", "")
          ints == [i \in 1..Len(parts) |-> ParseInt(parts[i])]
      IN  IF \E i \in 1..Len(parts) : ~ints[i].ok
          THEN Raise("ValueError", "int()", "", "")
          ELSE IF Len(parts) # 3 THEN Raise("TypeError", "date()", "", "")
          ELSE IF ~ValidDate(ints[1].val.v, ints[2].val.v, ints[3].val.v)
          THEN Raise("ValueError", "date()", "", "")
          ELSE Ok([t |-> "date", v |-> <<ints[1].val.v, ints[2].val.v, ints[3].val.v>>])

IsIsoDate(s) ==
    /\ Len(s) = 10
    /\ AllDigits(SubSeq(s, 1, 4)) /\ Char(s, 5) = "-"
    /\ AllDigits(SubSeq(s, 6, 7)) /\ Char(s, 8) = "-"
    /\ AllDigits(SubSeq(s, 9, 10))

IsIsoTime(s) ==
    /\ Len(s) = 8
    /\ AllDigits(SubSeq(s, 1, 2)) /\ Char(s, 3) = ":"
    /\ AllDigits(SubSeq(s, 4, 5)) /\ Char(s, 6) = ":"
    /\ AllDigits(SubSeq(s, 7, 8))

\* datetime.datetime.fromisoformat for the forms YYYY-MM-DD and
\* YYYY-MM-DD<sep>HH:MM:SS[Z]; every ISO 8601 form starts with a four-digit
\* year, so any other start is a ValueError; the remaining forms are outside
\* the model: "ModelBound".
FromIsoFormat(x) ==
    IF x.t # "str" THEN Raise("TypeError", "fromisoformat", "", "")
    ELSE
      LET s == x.v
          n == Len(s)
          dpart == SubSeq(s, 1, 10)
          tpart == SubSeq(s, 12, 19)
          y == DigitsValue(SubSeq(s, 1, 4), 0)
          mo == DigitsValue(SubSeq(s, 6, 7), 0)
          d == DigitsValue(SubSeq(s, 9, 10), 0)
          h == DigitsValue(SubSeq(s, 12, 13), 0)
          mi == DigitsValue(SubSeq(s, 15, 16), 0)
          se == DigitsValue(SubSeq(s, 18, 19), 0)
      IN  IF n < 7 \/ ~AllDigits(SubSeq(s, 1, 4))
          THEN Raise("ValueError", "fromisoformat", "", "")
          ELSE IF n = 10 /\ IsIsoDate(dpart)
          THEN IF ValidDate(y, mo, d)
               THEN Ok([t |-> "datetime", v |-> <<y, mo, d, 0, 0, 0>>, tz |-> ""])
               ELSE Raise("ValueError", "fromisoformat", "", "")
          ELSE IF /\ n \in {19, 20} /\ IsIsoDate(dpart) /\ IsIsoTime(tpart)
                  /\ (n = 20 => Char(s, 20) = "Z")
          THEN IF ValidDate(y, mo, d) /\ h < 24 /\ mi < 60 /\ se < 60
               THEN Ok([t |-> "datetime", v |-> <<y, mo, d, h, mi, se>>,
                        tz |-> IF n = 20 THEN "UTC" ELSE ""])
               ELSE Raise("ValueError", "fromisoformat", "", "")
          ELSE Raise("ModelBound", "fromisoformat", "", "")

\* ------------------------------------------------------------------------
\* InterfaceModel._from_json
\* ------------------------------------------------------------------------

Method(kind, n) == [kind |-> kind, n |-> n]

\* lines 54-78 without the test for enum classes of line 55
ResolveMethod_NoEnum(typ, c, m_name) ==
    IF typ.k = "class" /\ typ.n \in PRIMITIVES
    THEN Ok(Method("call", typ.n))
    ELSE IF typ.k # "class"
    THEN Raise("TypeError", "issubclass", "", "")
    ELSE IF issubclass(typ.n, "CustomDeserializer") THEN Ok(Method("deserialize", typ.n))
    ELSE IF issubclass(typ.n, "InterfaceModel") THEN Ok(Method("_from_json", typ.n))
    ELSE IF issubclass(typ.n, "datetime.datetime") THEN Ok(Method("fromisoformat", ""))
    ELSE IF issubclass(typ.n, "datetime.date") THEN Ok(Method("date", ""))
    ELSE Raise("ValueError", "unimplemented", c, m_name)

\* lines 54-78: the converter of a leaf type, first match wins
ResolveMethod(typ, c, m_name) ==
    IF typ.k = "class" /\ (typ.n \in PRIMITIVES \/ typ.n \in EnumNames)
    THEN Ok(Method("call", typ.n))
    ELSE IF typ.k # "class"
    THEN Raise("TypeError", "issubclass", "", "")
    ELSE IF issubclass(typ.n, "CustomDeserializer") THEN Ok(Method("deserialize", typ.n))
    ELSE IF issubclass(typ.n, "InterfaceModel") THEN Ok(Method("_from_json", typ.n))
    ELSE IF issubclass(typ.n, "datetime.datetime") THEN Ok(Method("fromisoformat", ""))
    ELSE IF issubclass(typ.n, "datetime.date") THEN Ok(Method("date", ""))
    ELSE Raise("ValueError", "unimplemented", c, m_name)

\* cls.__prefix_schema__[m_name] + value
ApplyPrefix(prefix, value) ==
    IF value.t = "str" THEN Ok(PyStrV(prefix \o value.v))
    ELSE Raise("TypeError", "prefix", "", "")

RECURSIVE StrChars(_, _)
StrChars(s, i) == IF i > Len(s) THEN <<>> ELSE <<PyStrV(Char(s, i))>> \o StrChars(s, i + 1)

\* what  for v in value  yields: the items of a list, the characters of a
\* str, the keys of a dict; nothing else is iterable
Iterate(value) ==
    CASE value.t = "list" -> Ok(value.v)
      [] value.t = "str" -> Ok(StrChars(value.v, 1))
      [] value.t = "dict" -> Ok([i \in 1..Len(value.v) |-> PyStrV(value.v[i].k)])
      [] OTHER -> Raise("TypeError", "iter", "", "")

Instance(c, constructed) == [t |-> "inst", cls |-> c, v |-> constructed]

\* list(data) in the first logging call
LogBegin(d) ==
    IF d.t \in {"str", "list", "dict"} THEN Ok(PyNone)
    ELSE Raise("TypeError", "list(data)", "", "")

\* data.get(m_name)
DataGet(d, m_name) ==
    IF d.t = "dict" THEN Ok(DictGet(d.v, m_name))
    ELSE Raise("AttributeError", "data.get", "", "")

\* list(data.keys()) in the last logging call, then cls(**constructed)
Construct(c, d, constructed) ==
    IF d.t = "dict" THEN Ok(Instance(c, constructed))
    ELSE Raise("AttributeError", "data.keys", "", "")

RECURSIVE _from_json(_, _)
RECURSIVE Apply(_, _)
RECURSIVE CallModel(_, _)
RECURSIVE MapMethod(_, _, _, _)
RECURSIVE FieldOutcome(_, _, _, _)
RECURSIVE FieldLoop(_, _, _, _, _)
RECURSIVE ImageStructure_from_json(_)
RECURSIVE Captions(_, _, _)

\* typ._from_json(value) with a failure of the nested call reported as a
\* failure of the nested model as a whole
CallModel_Generic(n, value) ==
    LET r == IF n = "ImageStructure" THEN ImageStructure_from_json(value)
             ELSE _from_json(n, value)
    IN  IF r.ok THEN r ELSE Raise("ValueError", "nested", n, "")

\* typ._from_json(value): ImageStructure overrides the classmethod; whatever
\* the call raises leaves it unchanged
CallModel(n, value) ==
    IF n = "ImageStructure" THEN ImageStructure_from_json(value) ELSE _from_json(n, value)

\* method(value)
Apply(method, value) ==
    CASE method.kind = "call" /\ method.n = "str" -> PyStr(value)
      [] method.kind = "call" /\ method.n = "int" -> PyInt(value)
      [] method.kind = "call" /\ method.n = "bool" -> PyBool(value)
      [] method.kind = "call" /\ method.n = "float" -> PyFloat(value)
      [] method.kind = "call" /\ method.n = "NoneType" -> PyNoneType(value)
      [] method.kind = "call" /\ method.n \in EnumNames -> EnumCall(method.n, value)
      [] method.kind = "deserialize" -> Raise("NotImplementedError", "deserialize", "", "")
      [] method.kind = "_from_json" -> CallModel(method.n, value)
      [] method.kind = "fromisoformat" -> FromIsoFormat(value)
      [] method.kind = "date" -> DateMethod(value)

\* [method(v) for v in items]: the first failing item raises
MapMethod(method, items, i, acc) ==
    IF i > Len(items) THEN Ok(PyListV(acc))
    ELSE LET r == Apply(method, items[i])
         IN  IF r.ok THEN MapMethod(method, items, i + 1, Append(acc, r.val)) ELSE r

\* lines 89-95 with the prefix put in front of the converted value instead of
\* the raw one
Convert_PrefixAfter(c, m_name, m_type, method, value) ==
    LET schema == prefix_schema(c)
        conv == IF primary_is_array(m_type)
                THEN LET it == Iterate(value)
                     IN  IF it.ok THEN MapMethod(method, it.val, 1, <<>>) ELSE it
                ELSE Apply(method, value)
    IN  IF ~conv.ok THEN conv
        ELSE IF HasKey(schema, m_name) THEN ApplyPrefix(Lookup(schema, m_name), conv.val)
        ELSE conv

\* lines 89-95: the prefix, then the list comprehension or the single call
Convert(c, m_name, m_type, method, value) ==
    LET schema == prefix_schema(c)
        pre == IF HasKey(schema, m_name) THEN ApplyPrefix(Lookup(schema, m_name), value)
               ELSE Ok(value)
    IN  IF ~pre.ok THEN pre
        ELSE IF primary_is_array(m_type)
        THEN LET it == Iterate(pre.val)
             IN  IF it.ok THEN MapMethod(method, it.val, 1, <<>>) ELSE it
        ELSE Apply(method, pre.val)

\* the loop body with the test of line 44 replaced by a test of the key's
\* presence alone, as in the older aiowiki/models/internal.py
FieldOutcome_KeyPresence(c, m_name, m_type, d) ==
    LET got == DataGet(d, m_name)
    IN  IF ~got.ok THEN got
        ELSE IF d.t = "dict" /\ ~HasKey(d.v, m_name)
        THEN IF is_optional(m_type) THEN Ok(PyNone)
             ELSE Raise("ValueError", "missing", c, m_name)
        ELSE LET method == ResolveMethod(LeafType(m_type), c, m_name)
             IN  IF ~method.ok THEN method
                 ELSE Convert(c, m_name, m_type, method.val, got.val)

\* bool(value) is False
Falsy(value) ==
    \/ value = PyNone
    \/ value.t \in {"int", "float"} /\ value.v = 0
    \/ value.t = "bool" /\ value.v = FALSE
    \/ value.t \in {"str", "list", "dict"} /\ Len(value.v) = 0

\* the loop body with the test of line 44 replaced by a test of the value's
\* truth,  if not data.get(m_name)
FieldOutcome_Truthiness(c, m_name, m_type, d) ==
    LET got == DataGet(d, m_name)
    IN  IF ~got.ok THEN got
        ELSE IF Falsy(got.val)
        THEN IF is_optional(m_type) THEN Ok(PyNone)
             ELSE Raise("ValueError", "missing", c, m_name)
        ELSE LET method == ResolveMethod(LeafType(m_type), c, m_name)
             IN  IF ~method.ok THEN method
                 ELSE Convert(c, m_name, m_type, method.val, got.val)

\* one iteration of the loop over get_annotations(cls).items(). The second
\* test of the value against None (lines 80-87) repeats data.get(m_name) of
\* line 44 and is never taken.
FieldOutcome(c, m_name, m_type, d) ==
    LET got == DataGet(d, m_name)
    IN  IF ~got.ok THEN got
        ELSE IF got.val = PyNone
        THEN IF is_optional(m_type) THEN Ok(PyNone)
             ELSE Raise("ValueError", "missing", c, m_name)
        ELSE LET method == ResolveMethod(LeafType(m_type), c, m_name)
             IN  IF ~method.ok THEN method
                 ELSE Convert(c, m_name, m_type, method.val, got.val)

FieldLoop(c, schema, i, d, constructed) ==
    IF i > Len(schema) THEN Construct(c, d, constructed)
    ELSE LET r == FieldOutcome(c, schema[i].name, schema[i].type, d)
         IN  IF r.ok
             THEN FieldLoop(c, schema, i + 1, d,
                            Append(constructed, [k |-> schema[i].name, v |-> r.val]))
             ELSE r

\* cls._from_json(data), start to finish
_from_json(c, d) ==
    IF ~LogBegin(d).ok THEN LogBegin(d)
    ELSE FieldLoop(c, get_annotations(c), 1, d, <<>>)

\* ImageStructure._from_json: captions keyed by Language(lang)
Captions(kvs, i, acc) ==
    IF i > Len(kvs) THEN Ok(Instance("ImageStructure",
                                     <<[k |-> "captions", v |-> [t |-> "captions", v |-> acc]]>>))
    ELSE LET lang == EnumCall("Language", PyStrV(kvs[i].k))
         IN  IF lang.ok
             THEN Captions(kvs, i + 1, Append(acc, [k |-> lang.val, v |-> kvs[i].v]))
             ELSE lang

ImageStructure_from_json(d) ==
    IF d.t # "dict" THEN Raise("TypeError", "data[captions]", "", "")
    ELSE IF ~HasKey(d.v, "captions") THEN Raise("KeyError", "data[captions]", "", "captions")
    ELSE IF Lookup(d.v, "captions").t # "dict" THEN Raise("AttributeError", "items", "", "")
    ELSE Captions(Lookup(d.v, "captions").v, 1, <<>>)

\* ------------------------------------------------------------------------
\* Inputs: the decoded JSON values handed to _from_json
\* ------------------------------------------------------------------------

\* longest list generated for a sequence field
MaxArrayLen == 2

\* how many levels below the top object a single altered field may sit
MaxDepth == 2

\* models with at most this many fields get every combination of the short
\* per-field choices
MaxProductFields == 3

Absent == [t |-> "absent"]

Entry(k, v) == [k |-> k, v |-> v]

SampleUser == PyDictV(<<Entry("id", PyIntV(7)), Entry("name", PyStrV("ab"))>>)

\* decoded JSON of every shape: null, strings, numbers, booleans, arrays, objects
Samples ==
    {PyNone,
     PyStrV(""), PyStrV("ab"), PyStrV("7"), PyStrV(" 7"), PyStrV("//a"), PyStrV("BITMAP"),
     PyStrV("bitmap"), PyStrV("1.5"), PyStrV("2024-02-30Z"), PyStrV("2024-01-05Z"),
     PyStrV("2024-01-05T10:00:00Z"),
     PyIntV(0), PyIntV(7), PyBoolV(TRUE), PyBoolV(FALSE), PyFloatV(15), PyFloatV(0),
     PyListV(<<>>), PyListV(<<PyStrV("a"), PyStrV("b")>>), PyListV(<<PyStrV("7"), PyIntV(7)>>),
     PyListV(<<PyNone, PyStrV("//a")>>), PyListV(<<SampleUser>>),
     PyDictV(<<>>), PyDictV(<<Entry("k", PyIntV(1)), Entry("j", PyIntV(2))>>), SampleUser}

\* the fields an API object of class c carries: every public annotation of
\* the class and of its bases, the most derived declaration first
RECURSIVE DeclaredFrom(_, _, _)
DeclaredFrom(mro, i, acc) ==
    IF i > Len(mro) THEN acc
    ELSE LET own == OwnAnnotations(mro[i])
             fresh == SelectSeq(own, LAMBDA e : /\ Char(e.name, 1) # "_"
                                               /\ \A j \in 1..Len(acc) : acc[j].name # e.name)
         IN  DeclaredFrom(mro, i + 1, acc \o fresh)

Declared(c) == DeclaredFrom(Mro(c), 1, <<>>)

RECURSIVE Nominal(_)
RECURSIVE NominalObj(_)
\* a value of the declared type, as the API sends it
Nominal(typ) ==
    CASE typ.k = "class" /\ typ.n = "str" -> PyStrV("//ab")
      [] typ.k = "class" /\ typ.n = "int" -> PyIntV(7)
      [] typ.k = "class" /\ typ.n = "bool" -> PyBoolV(TRUE)
      [] typ.k = "class" /\ typ.n = "float" -> PyFloatV(15)
      [] typ.k = "class" /\ typ.n = "NoneType" -> PyNone
      [] typ.k = "class" /\ typ.n \in EnumNames -> PyStrV(EnumMembers(typ.n)[1].value)
      [] typ.k = "class" /\ typ.n \in ModelClasses -> NominalObj(typ.n)
      [] typ.k = "class" /\ typ.n = "datetime.datetime" -> PyStrV("2024-01-05T10:00:00Z")
      [] typ.k = "class" /\ typ.n = "datetime.date" -> PyStrV("2024-01-05Z")
      [] typ.k = "class" /\ typ.n \in {"bytes", "CustomDeserializer"} -> PyStrV("ab")
      [] typ.k \in {"UnionType", "typing.Union"} ->
            Nominal(IF typ.args[1] = NoneT THEN typ.args[2] ELSE typ.args[1])
      [] typ.k = "alias" /\ typ.origin \in {"list", "tuple"} ->
            PyListV([i \in 1..Len(typ.args) |-> Nominal(typ.args[i])])
      [] typ.k = "alias" /\ typ.origin = "dict" ->
            PyDictV(<<Entry(Nominal(typ.args[1]).v, Nominal(typ.args[2]))>>)
      [] typ.k = "alias" /\ typ.origin \in ModelClasses -> NominalObj(typ.origin)

NominalObj(c) ==
    LET fs == Declared(c)
    IN  PyDictV([i \in 1..Len(fs) |-> Entry(fs[i].name, Nominal(fs[i].type))])

\* the object with one entry replaced (Absent: removed)
WithField(obj, name, x) ==
    LET put == [i \in 1..Len(obj.v) |-> IF obj.v[i].k = name THEN Entry(name, x) ELSE obj.v[i]]
    IN  PyDictV(SelectSeq(put, LAMBDA e : e.v # Absent))

\* the model class a field's value is an object of, "" if none
RECURSIVE ObjectClass(_)
ObjectClass(typ) ==
    CASE typ.k = "class" -> IF typ.n \in ModelClasses THEN typ.n ELSE ""
      [] typ.k \in {"UnionType", "typing.Union"} ->
            ObjectClass(IF typ.args[1] = NoneT THEN typ.args[2] ELSE typ.args[1])
      [] typ.k = "alias" /\ typ.origin \in ModelClasses -> typ.origin
      [] OTHER -> ""

\* the element type of a sequence field, NoneT if the field is none
RECURSIVE ElementType(_)
ElementType(typ) ==
    CASE typ.k \in {"UnionType", "typing.Union"} ->
            ElementType(IF typ.args[1] = NoneT THEN typ.args[2] ELSE typ.args[1])
      [] typ.k = "alias" /\ typ.origin \in {"list", "tuple"} -> typ.args[1]
      [] OTHER -> NoneT

SeqsUpTo(S, n) == UNION {[1..m -> S] : m \in 0..n}

\* the short choices for a field: no value, null, a value of the declared
\* type, a string and a number that are no such value
Choices(typ) == {Absent, PyNone, Nominal(typ), PyStrV("zz"), PyIntV(0)}

RECURSIVE OneHole(_, _, _)
RECURSIVE Variants(_, _, _)
\* the nominal object of class c with one field removed or replaced; base is
\* the set of plain values a replaced field is drawn from
OneHole(c, d, base) ==
    LET fs == Declared(c)
        nom == NominalObj(c)
    IN  UNION {{WithField(nom, fs[i].name, x) :
                   x \in {Absent} \cup Variants(fs[i].type, d, base)} : i \in 1..Len(fs)}

\* what one field of the declared type may hold: a plain value, a list of
\* up to MaxArrayLen items, or (d levels down) an object or a one-item list
\* of an object that has itself one field altered by the short choices
Variants(typ, d, base) ==
    LET oc == ObjectClass(typ)
        et == ElementType(typ)
        ec == ObjectClass(et)
        short == {PyNone, PyStrV("zz"), PyIntV(0)}
        deep == IF d > 0 /\ oc # "" THEN OneHole(oc, d - 1, short) ELSE {}
        lists == IF et = NoneT THEN {}
                 ELSE {PyListV(xs) : xs \in SeqsUpTo({Nominal(et), PyStrV("7"), PyNone}, MaxArrayLen)}
        deeplists == IF d > 0 /\ ec # "" THEN {PyListV(<<h>>) : h \in OneHole(ec, d - 1, short)} ELSE {}
    IN  base \cup {Nominal(typ)} \cup deep \cup lists \cup deeplists

\* every combination of the short choices across the fields of a small model
Product(c) ==
    LET fs == Declared(c)
        n == Len(fs)
    IN  IF n = 0 \/ n > MaxProductFields THEN {}
        ELSE {PyDictV(SelectSeq([i \in 1..n |-> Entry(fs[i].name, pick[i])],
                                LAMBDA e : e.v # Absent)) :
                 pick \in {f \in [1..n -> UNION {Choices(fs[i].type) : i \in 1..n}] :
                              \A i \in 1..n : f[i] \in Choices(fs[i].type)}}

\* the classes _from_json is called on directly; ImageStructure overrides
\* _from_json and is reached as a field of FullImage
RootClasses == (ModelClasses \ {"ImageStructure"}) \cup {"InterfaceModel"}

Inputs(c) == Samples \cup {NominalObj(c)} \cup OneHole(c, MaxDepth, Samples) \cup Product(c)

\* ------------------------------------------------------------------------
\* One call of cls._from_json(data), a loop iteration per step
\* ------------------------------------------------------------------------

\* the state of one endpoint call of the client (_Core, _Feed)
VARIABLES
    client,       \* the WikiClient: its project and language
    call,         \* the endpoint method called and its arguments
    cpc,          \* "idle", "awaiting", "received", "checked", "decoded", "returned", "raised"
    request,      \* the GET handed to the session
    response,     \* the response received
    events,       \* the calls made so far, in order
    items,        \* the raw objects still to be deserialized
    results,      \* the instances built
    cerror        \* the exception that left the endpoint method

cvars == <<client, call, cpc, request, response, events, items, results, cerror>>

NoCall == [method |-> "", query |-> "", limit |-> 0, title |-> "", filename |-> "",
           date |-> <<0, 0, 0>>, type |-> ""]

NoRequest == [url |-> "", params |-> <<>>]

NoResponse == [status |-> 0, body |-> [t |-> "NoneType"]]

\* no endpoint method has been called
ClientIdle ==
    /\ client = [project |-> "", language |-> ""]
    /\ call = NoCall
    /\ cpc = "idle"
    /\ request = NoRequest
    /\ response = NoResponse
    /\ events = <<>>
    /\ items = <<>>
    /\ results = <<>>
    /\ cerror = [exc |-> "", site |-> "", model |-> "", field |-> ""]

VARIABLES
    cls,          \* the class _from_json is called on
    data,         \* its argument
    pc,           \* "start", "loop", "returned", "raised"
    schema,       \* get_annotations(cls).items(), once the loop is entered
    idx,          \* position of the next item of schema
    constructed,  \* the dict built so far, as [k, v] entries
    returned,     \* the instance returned
    raised        \* the exception that left the call

vars == <<cls, data, pc, schema, idx, constructed, returned, raised>>

NoError == [exc |-> "", site |-> "", model |-> "", field |-> ""]

Init ==
    /\ cls \in RootClasses
    /\ data \in Inputs(cls)
    /\ pc = "start"
    /\ schema = <<>>
    /\ idx = 0
    /\ constructed = <<>>
    /\ returned = PyNone
    /\ raised = NoError
    /\ ClientIdle

m_name == schema[idx].name

m_type == schema[idx].type

InLoop == pc = "loop" /\ idx <= Len(schema)

\* data.get(m_name) is None
Valueless == DataGet(data, m_name).ok /\ DataGet(data, m_name).val = PyNone

\* lines 30-36: the logging call, then the loop is entered
Begin ==
    /\ pc = "start"
    /\ LogBegin(data).ok
    /\ pc' = "loop"
    /\ schema' = get_annotations(cls)
    /\ idx' = 1
    /\ UNCHANGED <<cls, data, constructed, returned, raised>>
    /\ UNCHANGED cvars

\* line 31: list(data) of a value that is not iterable
BeginRaise ==
    /\ pc = "start"
    /\ ~LogBegin(data).ok
    /\ pc' = "raised"
    /\ raised' = LogBegin(data).err
    /\ UNCHANGED <<cls, data, schema, idx, constructed, returned>>
    /\ UNCHANGED cvars

\* the outcome of the loop body for the current item
Outcome == FieldOutcome(cls, m_name, m_type, data)

\* lines 44-47: an Optional field without a value is None; continue
FieldNone ==
    /\ InLoop
    /\ Valueless
    /\ Outcome.ok
    /\ constructed' = Append(constructed, Entry(m_name, Outcome.val))
    /\ idx' = idx + 1
    /\ UNCHANGED <<cls, data, pc, schema, returned, raised>>
    /\ UNCHANGED cvars

\* lines 48-49: any other field without a value raises
FieldMissing ==
    /\ InLoop
    /\ ~Outcome.ok
    /\ Outcome.err.site = "missing"
    /\ pc' = "raised"
    /\ raised' = Outcome.err
    /\ UNCHANGED <<cls, data, schema, idx, constructed, returned>>
    /\ UNCHANGED cvars

\* lines 51-95: the value is converted and stored
FieldStore ==
    /\ InLoop
    /\ ~Valueless
    /\ Outcome.ok
    /\ constructed' = Append(constructed, Entry(m_name, Outcome.val))
    /\ idx' = idx + 1
    /\ UNCHANGED <<cls, data, pc, schema, returned, raised>>
    /\ UNCHANGED cvars

\* lines 44-95: data.get, the resolution or the conversion raises
FieldRaise ==
    /\ InLoop
    /\ ~Outcome.ok
    /\ Outcome.err.site # "missing"
    /\ pc' = "raised"
    /\ raised' = Outcome.err
    /\ UNCHANGED <<cls, data, schema, idx, constructed, returned>>
    /\ UNCHANGED cvars

\* lines 97-100: the last logging call and cls(**constructed)
Return ==
    /\ pc = "loop"
    /\ idx > Len(schema)
    /\ Construct(cls, data, constructed).ok
    /\ pc' = "returned"
    /\ returned' = Construct(cls, data, constructed).val
    /\ UNCHANGED <<cls, data, schema, idx, constructed, raised>>
    /\ UNCHANGED cvars

\* line 98: data.keys() of a value that is no dict
ReturnRaise ==
    /\ pc = "loop"
    /\ idx > Len(schema)
    /\ ~Construct(cls, data, constructed).ok
    /\ pc' = "raised"
    /\ raised' = Construct(cls, data, constructed).err
    /\ UNCHANGED <<cls, data, schema, idx, constructed, returned>>
    /\ UNCHANGED cvars

Next ==
    \/ Begin
    \/ BeginRaise
    \/ FieldNone
    \/ FieldMissing
    \/ FieldStore
    \/ FieldRaise
    \/ Return
    \/ ReturnRaise

Spec == Init /\ [][Next]_<<vars, cvars>>

\* the recursive operator and the step-by-step call agree on every outcome
StepsMatchCall ==
    /\ pc = "returned" => _from_json(cls, data) = Ok(returned)
    /\ pc = "raised" => _from_json(cls, data) = [ok |-> FALSE, err |-> raised]

\* ------------------------------------------------------------------------
\* Vocabulary of the properties: what a declaration says, read off the
\* annotation alone
\* ------------------------------------------------------------------------

\* a union that includes None
DeclaredOptional(t) ==
    /\ t.k \in {"UnionType", "typing.Union"}
    /\ \E i \in 1..Len(t.args) : t.args[i] = NoneT

\* the type an Optional wraps
Unwrapped(t) ==
    IF DeclaredOptional(t)
    THEN t.args[CHOOSE i \in 1..Len(t.args) : t.args[i] # NoneT]
    ELSE t

\* a list or tuple container, possibly inside an Optional
DeclaredSequence(t) ==
    /\ Unwrapped(t).k = "alias"
    /\ Unwrapped(t).origin \in {"list", "tuple"}

\* the element type of a Sequence, the type itself otherwise
DeclaredLeaf(t) ==
    IF DeclaredSequence(t) THEN Unwrapped(t).args[1] ELSE Unwrapped(t)

\* the raw value is a JSON object
IsObject == data.t = "dict"

\* the loop over the schema has been entered
Entered == pc # "start" /\ idx >= 1

Fields == 1..Len(schema)

\* the raw value of item i of the schema; None when absent or null
Raw(i) == DictGet(data.v, schema[i].name)

\* item i has been converted and stored
Stored(i) == Entered /\ i < idx

\* the call ended with an exception while item i was processed
RaisedAt(i) == pc = "raised" /\ idx = i

Finished == pc \in {"returned", "raised"}

\* the items declared Required that the raw object lacks or holds as null
MissingRequired ==
    {i \in Fields : ~DeclaredOptional(schema[i].type) /\ Raw(i) = PyNone}

FirstMissing == CHOOSE i \in MissingRequired : \A j \in MissingRequired : i <= j

MissingError(c, f) == [exc |-> "ValueError", site |-> "missing", model |-> c, field |-> f]

\* ------------------------------------------------------------------------
\* C1
\* ------------------------------------------------------------------------

\* C1, as stated: whenever a Required field of the raw object is absent or
\* null, the call ends with the missing-field error naming the model and a
\* missing field, and returns no instance.
C1_AnyMissingRequiredIsReported ==
    (Finished /\ IsObject /\ MissingRequired # {}) =>
        /\ pc = "raised"
        /\ returned = PyNone
        /\ \E i \in MissingRequired : raised = MissingError(cls, schema[i].name)

\* C1, amended: whenever a Required field of the raw object is absent or
\* null the call raises and returns no instance; it raises while processing
\* the first such field or an earlier one, and when it reaches the first
\* such field the error is the missing-field error naming the model and
\* that field.
C1_FirstMissingRequiredIsReported ==
    (Finished /\ IsObject /\ MissingRequired # {}) =>
        /\ pc = "raised"
        /\ returned = PyNone
        /\ idx <= FirstMissing
        /\ idx = FirstMissing => raised = MissingError(cls, schema[FirstMissing].name)

\* C1 witness: Article with id stored and title absent
C1_Witness ==
    /\ cls = "Article"
    /\ IsObject
    /\ pc = "raised"
    /\ MissingRequired # {}
    /\ idx = 2
    /\ FirstMissing = 2
    /\ raised = MissingError("Article", "title")

\* ------------------------------------------------------------------------
\* C2
\* ------------------------------------------------------------------------

\* C2: every field declared Optional whose raw value is absent or null is
\* stored as None, and the call does not raise while processing it, whatever
\* type the Optional wraps.
C2_OptionalWithoutValueIsNone ==
    \A i \in Fields :
        (Entered /\ IsObject /\ DeclaredOptional(schema[i].type) /\ Raw(i) = PyNone) =>
            /\ ~RaisedAt(i)
            /\ Stored(i) => constructed[i].v = PyNone

\* ------------------------------------------------------------------------
\* C3
\* ------------------------------------------------------------------------

\* the converter of the elements of item i of the schema
ElementMethod(i) == ResolveMethod(DeclaredLeaf(schema[i].type), cls, schema[i].name)

\* the field of item i has a prefix registered in the model
Registered(i) == HasKey(prefix_schema(cls), schema[i].name)

\* C3: a field declared as a Sequence (Required, or Optional with an array
\* present) and without a prefix, whose raw value is an array, is stored as
\* a sequence of the same length whose i-th element is the conversion of the
\* i-th raw item; an empty array never makes the call raise.
C3_SequenceConvertedElementwise ==
    \A i \in Fields :
        (/\ Entered
         /\ IsObject
         /\ DeclaredSequence(schema[i].type)
         /\ ~Registered(i)
         /\ Raw(i).t = "list") =>
            /\ (Raw(i).v = <<>>) => ~RaisedAt(i)
            /\ Stored(i) =>
                /\ constructed[i].v.t = "list"
                /\ Len(constructed[i].v.v) = Len(Raw(i).v)
                /\ ElementMethod(i).ok
                /\ \A j \in 1..Len(Raw(i).v) :
                    /\ Apply(ElementMethod(i).val, Raw(i).v[j]).ok
                    /\ constructed[i].v.v[j] = Apply(ElementMethod(i).val, Raw(i).v[j]).val

\* ------------------------------------------------------------------------
\* C4
\* ------------------------------------------------------------------------

\* the value the converter of field f of model c is to be given: the
\* registered prefix followed by the raw string, or the raw string itself
Prefixed(c, f, raw) ==
    IF HasKey(prefix_schema(c), f) THEN PyStrV(Lookup(prefix_schema(c), f) \o raw.v) ELSE raw

\* the plain model classes, deserialized by InterfaceModel._from_json
PlainModels == ModelClasses \ {"ImageStructure"}

\* item i is a scalar field holding a nested model, given as an object
NestedAt(i) ==
    /\ ~DeclaredSequence(schema[i].type)
    /\ DeclaredLeaf(schema[i].type).k = "class"
    /\ DeclaredLeaf(schema[i].type).n \in PlainModels
    /\ Raw(i).t = "dict"

\* C4: a scalar field given as a raw string is stored as (or fails as) its
\* converter applied to prefix + raw when the model registers a prefix under
\* the field's name, and to the raw string itself otherwise; the same holds
\* for the fields of a model deserialized as a nested field.
C4_ScalarPrefixBeforeConversion ==
    /\ \A i \in Fields :
        (/\ Entered
         /\ IsObject
         /\ ~DeclaredSequence(schema[i].type)
         /\ Raw(i).t = "str"
         /\ ResolveMethod(LeafType(schema[i].type), cls, schema[i].name).ok) =>
            LET method == ResolveMethod(LeafType(schema[i].type), cls, schema[i].name).val
                expected == Apply(method, Prefixed(cls, schema[i].name, Raw(i)))
            IN  /\ Stored(i) => (expected.ok /\ constructed[i].v = expected.val)
                /\ RaisedAt(i) => (~expected.ok /\ raised = expected.err)
    /\ \A i \in Fields :
        (Stored(i) /\ IsObject /\ NestedAt(i) /\ ~Registered(i)) =>
            LET c == DeclaredLeaf(schema[i].type).n
                inner == get_annotations(c)
            IN  \A k \in 1..Len(inner) :
                    LET raw == DictGet(Raw(i).v, inner[k].name)
                        method == ResolveMethod(LeafType(inner[k].type), c, inner[k].name)
                    IN  (~DeclaredSequence(inner[k].type) /\ raw.t = "str" /\ method.ok) =>
                            /\ constructed[i].v.v[k].k = inner[k].name
                            /\ constructed[i].v.v[k].v =
                                   Apply(method.val, Prefixed(c, inner[k].name, raw)).val

\* C4 witness: an Article returned whose nested Thumbnail has its url
\* prefixed and whose own title is the raw string
C4_Witness ==
    /\ cls = "Article"
    /\ pc = "returned"
    /\ IsObject
    /\ Raw(2).t = "str"
    /\ constructed[2].v = Raw(2)
    /\ NestedAt(3)
    /\ DictGet(Raw(3).v, "url").t = "str"
    /\ constructed[3].v.v[1].v = PyStrV("https:" \o DictGet(Raw(3).v, "url").v)

\* ------------------------------------------------------------------------
\* C5
\* ------------------------------------------------------------------------

AllStrings(xs) == \A j \in 1..Len(xs) : xs[j].t = "str"

\* C5: a Sequence field with a registered prefix, given an array of strings,
\* does not make the call raise and is stored as the sequence whose i-th
\* element is the converter applied to prefix + i-th raw element.
C5_SequencePrefixPerElement ==
    \A i \in Fields :
        (/\ Entered
         /\ IsObject
         /\ DeclaredSequence(schema[i].type)
         /\ Registered(i)
         /\ Raw(i).t = "list"
         /\ AllStrings(Raw(i).v)
         /\ ElementMethod(i).ok
         /\ \A j \in 1..Len(Raw(i).v) :
                Apply(ElementMethod(i).val, Prefixed(cls, schema[i].name, Raw(i).v[j])).ok) =>
            /\ ~RaisedAt(i)
            /\ Stored(i) =>
                /\ constructed[i].v.t = "list"
                /\ Len(constructed[i].v.v) = Len(Raw(i).v)
                /\ \A j \in 1..Len(Raw(i).v) :
                       constructed[i].v.v[j] =
                           Apply(ElementMethod(i).val,
                                 Prefixed(cls, schema[i].name, Raw(i).v[j])).val

\* ------------------------------------------------------------------------
\* C6
\* ------------------------------------------------------------------------

\* the JSON types a value of a declared primitive type arrives as
JsonTypes(p) ==
    CASE p = "str" -> {"str"}
      [] p = "int" -> {"int"}
      [] p = "bool" -> {"bool"}
      [] p = "float" -> {"float", "int"}

\* C6: a scalar field declared with a primitive type is stored only when the
\* raw value has the matching JSON type; a raw value of another JSON type is
\* never converted into the declared type and stored.
C6_NoSilentCoercion ==
    \A i \in Fields :
        (/\ Stored(i)
         /\ IsObject
         /\ ~DeclaredSequence(schema[i].type)
         /\ ~Registered(i)
         /\ DeclaredLeaf(schema[i].type).k = "class"
         /\ DeclaredLeaf(schema[i].type).n \in {"str", "int", "bool", "float"}
         /\ Raw(i) # PyNone) =>
            Raw(i).t \in JsonTypes(DeclaredLeaf(schema[i].type).n)

\* ------------------------------------------------------------------------
\* C7
\* ------------------------------------------------------------------------

\* C7: a field declared as a Sequence whose raw value is present and is not
\* an array is never stored: the call raises while processing it.
C7_NonArrayForSequenceFails ==
    \A i \in Fields :
        (/\ Entered
         /\ IsObject
         /\ DeclaredSequence(schema[i].type)
         /\ Raw(i) # PyNone
         /\ Raw(i).t # "list") =>
            ~Stored(i)

\* ------------------------------------------------------------------------
\* C8
\* ------------------------------------------------------------------------

\* field k of schema s is a scalar nested model of one of the classes S,
\* given as an object in raw object d
NestedIn(S, s, k, d) ==
    /\ ~DeclaredSequence(s[k].type)
    /\ DeclaredLeaf(s[k].type).k = "class"
    /\ DeclaredLeaf(s[k].type).n \in S
    /\ DictGet(d.v, s[k].name).t = "dict"

\* field k of schema s is Required and raw object d lacks it or holds null
RequiredMissingIn(s, k, d) ==
    /\ ~DeclaredOptional(s[k].type)
    /\ DictGet(d.v, s[k].name) = PyNone

\* the first field at or after position k of schema s of model c that fails
\* on raw object d; 0 when none does
RECURSIVE FirstFailFrom(_, _, _, _)
FirstFailFrom(c, s, d, k) ==
    IF k > Len(s) THEN 0
    ELSE IF ~FieldOutcome(c, s[k].name, s[k].type, d).ok THEN k
    ELSE FirstFailFrom(c, s, d, k + 1)

\* the first field of model c that fails on raw object d; ImageStructure has
\* the one field captions
FirstFail(c, d) ==
    IF c = "ImageStructure"
    THEN IF ImageStructure_from_json(d).ok THEN 0 ELSE 1
    ELSE FirstFailFrom(c, get_annotations(c), d, 1)

\* x is an instance of c holding, field by field, the conversion of d
ConvertedInstance(x, c, d) ==
    LET s == get_annotations(c)
    IN  /\ x.t = "inst"
        /\ x.cls = c
        /\ Len(x.v) = Len(s)
        /\ \A k \in 1..Len(s) :
            LET r == FieldOutcome(c, s[k].name, s[k].type, d)
            IN  /\ x.v[k].k = s[k].name
                /\ r.ok
                /\ x.v[k].v = r.val

\* in the instance returned, a nested model of the classes S is an instance
\* of the nested class with every field converted, and so is a model of S
\* nested in it
NestedConverted(S) ==
    (pc = "returned" /\ IsObject) =>
        \A i \in Fields :
            (NestedIn(S, schema, i, data) /\ ~Registered(i)) =>
                LET c1 == DeclaredLeaf(schema[i].type).n
                    d1 == Raw(i)
                    s1 == get_annotations(c1)
                IN  /\ returned.v[i].k = schema[i].name
                    /\ ConvertedInstance(returned.v[i].v, c1, d1)
                    /\ \A j \in 1..Len(s1) :
                        (NestedIn(S, s1, j, d1) /\ ~HasKey(prefix_schema(c1), s1[j].name)) =>
                            ConvertedInstance(returned.v[i].v.v[j].v,
                                              DeclaredLeaf(s1[j].type).n,
                                              DictGet(d1.v, s1[j].name))

\* when the first failure inside a nested object of the classes S, or
\* inside the object nested in it, is a missing Required field, the error
\* that leaves the call is the missing-field error of that innermost model
\* and field
InnermostMissingReported(S) ==
    (/\ pc = "raised"
     /\ IsObject
     /\ idx \in Fields
     /\ NestedIn(S, schema, idx, data)
     /\ ~Registered(idx)) =>
        \A c1 \in {DeclaredLeaf(schema[idx].type).n} :
        \A d1 \in {Raw(idx)} :
        \A s1 \in {get_annotations(c1)} :
        \A k \in {FirstFail(c1, d1)} :
            /\ (k > 0 /\ RequiredMissingIn(s1, k, d1)) =>
                raised = MissingError(c1, s1[k].name)
            /\ (/\ c1 # "ImageStructure"
                /\ k > 0
                /\ NestedIn(S, s1, k, d1)
                /\ ~HasKey(prefix_schema(c1), s1[k].name)) =>
                \A c2 \in {DeclaredLeaf(s1[k].type).n} :
                \A d2 \in {DictGet(d1.v, s1[k].name)} :
                \A s2 \in {get_annotations(c2)} :
                \A l \in {FirstFail(c2, d2)} :
                    (l > 0 /\ RequiredMissingIn(s2, l, d2)) =>
                        raised = MissingError(c2, s2[l].name)

\* C8: through one and two levels of nesting, nested models arrive in the
\* result with every field converted, and a missing Required field of an
\* inner model reaches the caller as the missing-field error of that inner
\* model and field.
C8_NestedModelsAndInnermostError ==
    /\ NestedConverted(PlainModels)
    /\ InnermostMissingReported(ModelClasses)

\* the same for the models that inherit InterfaceModel._from_json, which
\* leaves out ImageStructure
InheritedNestedModels ==
    /\ NestedConverted(PlainModels)
    /\ InnermostMissingReported(PlainModels)

\* File holds RevisionMeta holds User, and the User object lacks its id
InheritedNestedModelsReached ==
    /\ cls = "File"
    /\ IsObject
    /\ \E i \in Fields :
        /\ RaisedAt(i)
        /\ NestedAt(i)
        /\ DeclaredLeaf(schema[i].type).n = "RevisionMeta"
        /\ FirstFail("RevisionMeta", Raw(i)) > 0
        /\ NestedIn(PlainModels, get_annotations("RevisionMeta"),
                    FirstFail("RevisionMeta", Raw(i)), Raw(i))
    /\ raised = MissingError("User", "id")

\* ------------------------------------------------------------------------
\* C9
\* ------------------------------------------------------------------------

\* item i is a scalar field whose leaf type is an enum, with a value given
EnumAt(i) ==
    /\ ~DeclaredSequence(schema[i].type)
    /\ DeclaredLeaf(schema[i].type).k = "class"
    /\ DeclaredLeaf(schema[i].type).n \in EnumNames
    /\ ~Registered(i)
    /\ Raw(i) # PyNone

\* the declared members of enum e whose value is the raw value x
MembersWithValue(e, x) ==
    {j \in 1..Len(EnumMembers(e)) : x = PyStrV(EnumMembers(e)[j].value)}

OwnPublic(c) ==
    {OwnAnnotations(c)[k].name :
        k \in {k \in 1..Len(OwnAnnotations(c)) : ~startswith(OwnAnnotations(c)[k].name, "_")}}

\* the public field names declared by class c or by any of its ancestors
PublicDeclared(c) == UNION {OwnPublic(Mro(c)[j]) : j \in 1..Len(Mro(c))}

\* C10: the schema used for a model holds each public field name declared by
\* the model or by any ancestor exactly once, and no other name.
C10_SchemaIsUnionOfAncestors ==
    Entered =>
        /\ {schema[i].name : i \in Fields} = PublicDeclared(cls)
        /\ \A i, j \in Fields : schema[i].name = schema[j].name => i = j

\* C10 witness: DatedEvent, whose schema holds its own year and the text and
\* pages of UndatedEvent
C10_Witness ==
    /\ cls = "DatedEvent"
    /\ Entered
    /\ {schema[i].name : i \in Fields} = {"year", "text", "pages"}

\* ------------------------------------------------------------------------
\* The client (aiowiki/client.py): one endpoint call, from the request to
\* the instances returned
\* ------------------------------------------------------------------------

BASE_URL == "https://api.wikimedia.org"

\* Project and EventType of models/enums.py, by value
ProjectValues == {"wikipedia", "commons"}

EventTypeValues == {"all", "selected", "births"}

\* str.rjust(width, fillchar)
RECURSIVE rjust(_, _, _)
rjust(str, width, fillchar) ==
    IF Len(str) >= width THEN str ELSE rjust(fillchar \o str, width, fillchar)

\* date.strftime("%Y/%m/%d")
strftime(date) ==
    rjust(ToString(date[1]), 4, "0") \o "/" \o rjust(ToString(date[2]), 2, "0")
        \o "/" \o rjust(ToString(date[3]), 2, "0")

\* _WikiModule.__init__: f"{BASE_URL}{base}"
base_url(base) == BASE_URL \o base

\* line 180: the month and day part of the onthisday path
fmt_date(date) ==
    rjust(ToString(date[2]), 2, "0") \o "/" \o rjust(ToString(date[3] - 1), 2, "0")

Params(q, limit) == <<Entry("q", PyStrV(q)), Entry("limit", PyIntV(limit))>>

\* the url and query parameters each endpoint method hands to session.get
RequestOf(cl, c) ==
    CASE c.method = "search_content" ->
            [url |-> base_url("/core/v1") \o "/" \o cl.project \o "/" \o cl.language
                        \o "/search/page",
             params |-> Params(c.query, c.limit)]
      [] c.method = "search_titles" ->
            [url |-> base_url("/core/v1") \o "/" \o cl.project \o "/" \o cl.language
                        \o "/search/title",
             params |-> Params(c.query, c.limit)]
      [] c.method = "get_description" ->
            [url |-> base_url("/core/v1") \o "/" \o cl.project \o "/" \o cl.language
                        \o "/page/" \o c.title \o "/description",
             params |-> <<>>]
      [] c.method = "get_file" ->
            [url |-> base_url("/core/v1") \o "/commons/file/File:" \o c.filename,
             params |-> <<>>]
      [] c.method = "featured_content" ->
            [url |-> base_url("/feed/v1") \o "/wikipedia/" \o cl.language \o "/featured/"
                        \o strftime(c.date),
             params |-> <<>>]
      [] c.method = "onthisday" ->
            [url |-> base_url("/feed/v1") \o "/wikipedia/" \o cl.language \o "/onthisday/"
                        \o c.type \o "/" \o fmt_date(c.date),
             params |-> <<Entry("type", PyStrV(c.type))>>]

\* the model class an endpoint method deserializes into; "" for none
TargetOf(method) ==
    CASE method \in {"search_content", "search_titles"} -> "SearchPageResult"
      [] method = "get_file" -> "File"
      [] method = "featured_content" -> "FeaturedContent"
      [] method = "onthisday" -> "OnThisDay"
      [] OTHER -> ""

\* a status check that lets everything below 500 through
raise_for_status_ServerErrors(resp) ==
    IF resp.status < 500 THEN Ok(PyNone)
    ELSE Raise("HTTPStatusError", "raise_for_status", "", "")

\* response.raise_for_status(): HTTPStatusError unless the status is 2xx
raise_for_status(resp) ==
    IF resp.status >= 200 /\ resp.status <= 299 THEN Ok(PyNone)
    ELSE Raise("HTTPStatusError", "raise_for_status", "", "")

\* a body that is no JSON document
NotJson == [t |-> "notjson"]

\* response.json()
json(resp) ==
    IF resp.body = NotJson THEN Raise("JSONDecodeError", "json", "", "") ELSE Ok(resp.body)

\* decoded[key]
Subscript(decoded, key) ==
    IF decoded.t # "dict" THEN Raise("TypeError", "subscript", "", "")
    ELSE IF ~HasKey(decoded.v, key) THEN Raise("KeyError", "subscript", "", key)
    ELSE Ok(Lookup(decoded.v, key))

\* what the method takes from the decoded body: the raw objects it will
\* deserialize one by one, or the value it returns as it is
Extract(method, decoded) ==
    CASE method \in {"search_content", "search_titles"} ->
            LET pages == Subscript(decoded, "pages")
            IN  IF pages.ok THEN Iterate(pages.val) ELSE pages
      [] method = "get_description" -> Subscript(decoded, "description")
      [] OTHER -> Ok(<<decoded>>)

\* the status codes a response arrives with
Statuses == {200, 204, 301, 404, 500}

\* the calendar dates of a common year and a leap year
Dates ==
    {d \in (2023..2024) \X (1..12) \X (1..31) : ValidDate(d[1], d[2], d[3])}

\* the dates featured_content is called with
FeaturedDates == {<<2023, 1, 1>>, <<2024, 2, 29>>, <<2024, 12, 31>>}

LanguageValues == {EnumMembers("Language")[i].value : i \in 1..Len(EnumMembers("Language"))}

Pages(xs) == PyDictV(<<Entry("pages", xs)>>)

\* the OnThisDay object of a day without events
NoEvents ==
    LET fs == Declared("OnThisDay")
    IN  PyDictV([i \in 1..Len(fs) |-> Entry(fs[i].name, PyListV(<<>>))])

\* the bodies a response to each endpoint method arrives with
Bodies(method) ==
    CASE method \in {"search_content", "search_titles"} ->
            {NotJson, PyNone, PyDictV(<<>>), Pages(PyListV(<<>>)), Pages(PyStrV("ab")),
             Pages(PyListV(<<NominalObj("SearchPageResult")>>)),
             Pages(PyListV(<<NominalObj("SearchPageResult"), PyDictV(<<>>)>>)),
             Pages(PyListV(<<NominalObj("SearchPageResult"),
                             NominalObj("SearchPageResult")>>))}
      [] method = "get_description" ->
            {NotJson, PyDictV(<<>>), PyDictV(<<Entry("description", PyStrV("ab"))>>)}
      [] method = "get_file" ->
            {NotJson, PyListV(<<>>), PyDictV(<<>>), NominalObj("File")}
      [] method = "featured_content" ->
            {NotJson, PyDictV(<<>>), NominalObj("FeaturedContent")}
      [] method = "onthisday" ->
            {PyDictV(<<>>), NoEvents}

CInit ==
    /\ cls = "InterfaceModel"
    /\ data = PyNone
    /\ pc = "idle"
    /\ schema = <<>>
    /\ idx = 0
    /\ constructed = <<>>
    /\ returned = PyNone
    /\ raised = NoError
    /\ client \in [project : ProjectValues, language : LanguageValues]
    /\ call = NoCall
    /\ cpc = "idle"
    /\ request = NoRequest
    /\ response = NoResponse
    /\ events = <<>>
    /\ items = <<>>
    /\ results = <<>>
    /\ cerror = NoError

\* the request of the call is sent:  await self._client._session.get(...)
Sent ==
    /\ request' = RequestOf(client, call')
    /\ events' = <<"get">>
    /\ cpc' = "awaiting"
    /\ UNCHANGED <<client, response, items, results, cerror>>
    /\ UNCHANGED vars

\* _Core.search_content, up to its await
SearchContent ==
    /\ cpc = "idle"
    /\ \E limit \in {1, 10} :
        call' = [NoCall EXCEPT !.method = "search_content", !.query = "earth", !.limit = limit]
    /\ Sent

\* _Core.search_titles, up to its await
SearchTitles ==
    /\ cpc = "idle"
    /\ \E limit \in {1, 10} :
        call' = [NoCall EXCEPT !.method = "search_titles", !.query = "earth", !.limit = limit]
    /\ Sent

\* _Core.get_description, up to its await
GetDescription ==
    /\ cpc = "idle"
    /\ call' = [NoCall EXCEPT !.method = "get_description", !.title = "Earth"]
    /\ Sent

\* _Core.get_file, up to its await
GetFile ==
    /\ cpc = "idle"
    /\ call' = [NoCall EXCEPT !.method = "get_file", !.filename = "Earth.jpg"]
    /\ Sent

\* _Feed.featured_content, up to its await
FeaturedContent ==
    /\ cpc = "idle"
    /\ \E date \in FeaturedDates :
        call' = [NoCall EXCEPT !.method = "featured_content", !.date = date]
    /\ Sent

\* _Feed.onthisday, up to its await
OnThisDay ==
    /\ cpc = "idle"
    /\ \E date \in Dates, type \in EventTypeValues :
        call' = [NoCall EXCEPT !.method = "onthisday", !.date = date, !.type = type]
    /\ Sent

\* the awaited get returns a response
Respond ==
    /\ cpc = "awaiting"
    /\ \E status \in Statuses, body \in Bodies(call.method) :
        response' = [status |-> status, body |-> body]
    /\ cpc' = "received"
    /\ UNCHANGED <<client, call, request, events, items, results, cerror>>
    /\ UNCHANGED vars

\* the awaited get raises: no response arrives
TransportError ==
    /\ cpc = "awaiting"
    /\ cpc' = "raised"
    /\ cerror' = Raise("TransportError", "get", "", "").err
    /\ UNCHANGED <<client, call, request, response, events, items, results>>
    /\ UNCHANGED vars

\* response.raise_for_status() returns
StatusOk ==
    /\ cpc = "received"
    /\ raise_for_status(response).ok
    /\ events' = Append(events, "raise_for_status")
    /\ cpc' = "checked"
    /\ UNCHANGED <<client, call, request, response, items, results, cerror>>
    /\ UNCHANGED vars

\* response.raise_for_status() raises
StatusError ==
    /\ cpc = "received"
    /\ ~raise_for_status(response).ok
    /\ events' = Append(events, "raise_for_status")
    /\ cpc' = "raised"
    /\ cerror' = raise_for_status(response).err
    /\ UNCHANGED <<client, call, request, response, items, results>>
    /\ UNCHANGED vars

\* response.json() and what the method takes from it
Decoded ==
    LET d == json(response)
    IN  IF d.ok THEN Extract(call.method, d.val) ELSE d

\* the body is decoded; the raw objects to deserialize are at hand
JsonOk ==
    /\ cpc = "checked"
    /\ TargetOf(call.method) # ""
    /\ Decoded.ok
    /\ items' = Decoded.val
    /\ events' = Append(events, "json")
    /\ cpc' = "decoded"
    /\ UNCHANGED <<client, call, request, response, results, cerror>>
    /\ UNCHANGED vars

\* get_description returns the member of the decoded body as it is
DescriptionReturn ==
    /\ cpc = "checked"
    /\ TargetOf(call.method) = ""
    /\ Decoded.ok
    /\ results' = <<Decoded.val>>
    /\ events' = Append(events, "json")
    /\ cpc' = "returned"
    /\ UNCHANGED <<client, call, request, response, items, cerror>>
    /\ UNCHANGED vars

\* response.json(), the subscript or the iteration raises
JsonError ==
    /\ cpc = "checked"
    /\ ~Decoded.ok
    /\ events' = Append(events, "json")
    /\ cpc' = "raised"
    /\ cerror' = Decoded.err
    /\ UNCHANGED <<client, call, request, response, items, results>>
    /\ UNCHANGED vars

\* Target._from_json(raw) of the next raw object returns an instance
FromJsonOk ==
    /\ cpc = "decoded"
    /\ items # <<>>
    /\ _from_json(TargetOf(call.method), Head(items)).ok
    /\ results' = Append(results, _from_json(TargetOf(call.method), Head(items)).val)
    /\ items' = Tail(items)
    /\ events' = Append(events, "_from_json")
    /\ UNCHANGED <<client, call, cpc, request, response, cerror>>
    /\ UNCHANGED vars

\* Target._from_json(raw) raises
FromJsonRaise ==
    /\ cpc = "decoded"
    /\ items # <<>>
    /\ ~_from_json(TargetOf(call.method), Head(items)).ok
    /\ events' = Append(events, "_from_json")
    /\ cpc' = "raised"
    /\ cerror' = _from_json(TargetOf(call.method), Head(items)).err
    /\ UNCHANGED <<client, call, request, response, items, results>>
    /\ UNCHANGED vars

\* the method returns the instance, or the list of instances
EndpointReturn ==
    /\ cpc = "decoded"
    /\ items = <<>>
    /\ cpc' = "returned"
    /\ UNCHANGED <<client, call, request, response, events, items, results, cerror>>
    /\ UNCHANGED vars

CNext ==
    \/ SearchContent
    \/ SearchTitles
    \/ GetDescription
    \/ GetFile
    \/ FeaturedContent
    \/ OnThisDay
    \/ Respond
    \/ TransportError
    \/ StatusOk
    \/ StatusError
    \/ JsonOk
    \/ DescriptionReturn
    \/ JsonError
    \/ FromJsonOk
    \/ FromJsonRaise
    \/ EndpointReturn

SpecClient == CInit /\ [][CNext]_<<vars, cvars>>

\* ---------------------------------------------------------------------
\* Claims about the client

\* the endpoint methods that deserialize what they receive
Deserializing ==
    {"search_content", "search_titles", "get_file", "featured_content", "onthisday"}

\* the steps of the current call at which _from_json was invoked
FromJsonCalls == {i \in 1..Len(events) : events[i] = "_from_json"}

\* a response has arrived and response.raise_for_status() has run
StatusChecked == \E i \in 1..Len(events) : events[i] = "raise_for_status"

Success(status) == status >= 200 /\ status <= 299

\* C11: in every endpoint method that deserializes, _from_json is invoked
\* only after the response has been received and its status check has
\* passed; when the status check has run on a non-2xx response the call has
\* raised the status error and _from_json was never invoked for the request.
C11_DeserializeOnlyAfterStatusCheck ==
    (call.method \in Deserializing) =>
        /\ \A i \in FromJsonCalls :
            /\ response # NoResponse
            /\ Success(response.status)
            /\ \E j \in 1..(i - 1) : events[j] = "raise_for_status"
        /\ (StatusChecked /\ ~Success(response.status)) =>
            /\ cpc = "raised"
            /\ cerror.exc = "HTTPStatusError"
            /\ FromJsonCalls = {}
            /\ results = <<>>

\* a 404 answer to a search, whose body holds a well-formed page, has
\* raised the status error without a call of _from_json
C11_Witness ==
    /\ call.method = "search_content"
    /\ response.status = 404
    /\ response.body = Pages(PyListV(<<NominalObj("SearchPageResult")>>))
    /\ StatusChecked
    /\ cpc = "raised"
    /\ cerror.exc = "HTTPStatusError"
    /\ FromJsonCalls = {}

\* the number n written with at least two digits
TwoDigits(n) == IF n < 10 THEN "0" \o ToString(n) ELSE ToString(n)

\* an onthisday call has sent its request
OnThisDaySent == call.method = "onthisday" /\ cpc # "idle"

\* C12: for every date d, onthisday(d, type) requests the path
\* /wikipedia/{language}/onthisday/{type}/{MM}/{DD}, MM the month of d and
\* DD the day of the month of d, each padded to two digits; the year of d
\* has no influence on the request.
C12_OnThisDayPathIsMonthAndDay ==
    OnThisDaySent =>
        /\ request.url = BASE_URL \o "/feed/v1/wikipedia/" \o client.language
                            \o "/onthisday/" \o call.type
                            \o "/" \o TwoDigits(call.date[2])
                            \o "/" \o TwoDigits(call.date[3])
        /\ \A year \in 2023..2024 :
            request = RequestOf(client, [call EXCEPT !.date = <<year, call.date[2], call.date[3]>>])

\* the part of C12 the code keeps: the path ends in the month, and the year
\* has no influence on the request
OnThisDayMonthAndNoYear ==
    OnThisDaySent =>
        /\ \E day \in 0..30 :
            request.url = BASE_URL \o "/feed/v1/wikipedia/" \o client.language
                            \o "/onthisday/" \o call.type
                            \o "/" \o TwoDigits(call.date[2])
                            \o "/" \o TwoDigits(day)
        /\ \A year \in 2023..2024 :
            request = RequestOf(client, [call EXCEPT !.date = <<year, call.date[2], call.date[3]>>])

\* the day the code puts in the path is the day before d's, 00 on the first
OnThisDayPathIsDayBefore ==
    OnThisDaySent =>
        request.url = BASE_URL \o "/feed/v1/wikipedia/" \o client.language
                        \o "/onthisday/" \o call.type
                        \o "/" \o TwoDigits(call.date[2])
                        \o "/" \o TwoDigits(call.date[3] - 1)

\* ---------------------------------------------------------------------
\* Claims about parametrised generic models and falsy values

\* item i is declared as a parametrised generic model, Model[param],
\* possibly inside an Optional, and the raw object holds an object for it
GenericModelAt(i) ==
    /\ ~DeclaredSequence(schema[i].type)
    /\ DeclaredLeaf(schema[i].type).k = "alias"
    /\ DeclaredLeaf(schema[i].type).origin \in ModelClasses
    /\ Raw(i).t = "dict"

\* C13: for a field declared as a parametrised generic nested model, leaf
\* resolution yields the model type itself, not its type parameter, and the
\* field is converted by the recursive deserialization of the raw object
\* with that model's schema: it is stored as that result, or fails as it.
C13_GenericResolvesToModel ==
    \A i \in Fields :
        (Entered /\ IsObject /\ GenericModelAt(i) /\ (Stored(i) \/ RaisedAt(i))) =>
            /\ LeafType(schema[i].type) = Mod(DeclaredLeaf(schema[i].type).origin)
            /\ \A r \in {_from_json(DeclaredLeaf(schema[i].type).origin, Raw(i))} :
                /\ Stored(i) => (r.ok /\ constructed[i].v = r.val)
                /\ RaisedAt(i) => (~r.ok /\ raised = r.err)

\* what the code does with such a field: the leaf is the type parameter,
\* no converter is resolved for it, and the call raises the TypeError of
\* issubclass() whatever the raw object holds
GenericFieldRaisesTypeError ==
    \A i \in Fields :
        (Entered /\ IsObject /\ GenericModelAt(i) /\ Finished /\ idx >= i) =>
            /\ LeafType(schema[i].type) = DeclaredLeaf(schema[i].type).args[1]
            /\ RaisedAt(i)
            /\ raised.exc = "TypeError"
            /\ raised.site = "issubclass"

\* the raw object holds a value for item i, and the value is falsy
FalsyAt(i) == Raw(i) # PyNone /\ Falsy(Raw(i))

\* what resolving the converter of item i and converting the raw value gives
Conversion(i) ==
    LET method == ResolveMethod(LeafType(schema[i].type), cls, schema[i].name)
    IN  IF method.ok
        THEN Convert(cls, schema[i].name, schema[i].type, method.val, Raw(i))
        ELSE method

\* C14: a raw value that is present but falsy (0, 0.0, false, the empty
\* string, array or object) is not treated as missing: the field raises no
\* missing-field error, an Optional field is not replaced by None, and the
\* field is stored as, or fails as, the conversion of the value.
C14_FalsyIsPresent ==
    \A i \in Fields :
        (Entered /\ IsObject /\ FalsyAt(i) /\ (Stored(i) \/ RaisedAt(i))) =>
            \A expected \in {Conversion(i)} :
                /\ Stored(i) =>
                    /\ expected.ok
                    /\ constructed[i].v = expected.val
                    /\ constructed[i].v # PyNone
                /\ RaisedAt(i) =>
                    /\ ~expected.ok
                    /\ raised = expected.err
                    /\ raised # MissingError(cls, schema[i].name)

\* C14 witness: an Optional string given as "" is returned as "", not as
\* None
C14_Witness ==
    /\ cls = "OptStr"
    /\ pc = "returned"
    /\ FalsyAt(1)
    /\ Raw(1) = PyStrV("")
    /\ constructed[1].v = PyStrV("")

====
